---- MODULE Spec2Model ----
(***************************************************************************)
(* Model of harper-bridge (src/harper-bridge/src/lib.rs): the C boundary   *)
(* harper_lint / harper_free_string around the harper_core lint group.     *)
(*                                                                         *)
(* Text is a sequence of Unicode code points, the C string handed to       *)
(* harper_lint is its UTF-8 byte sequence, and the returned JSON array is  *)
(* the sequence of LintResult records it serialises.  harper_core itself   *)
(* (dictionary singleton, rules, lint group) is not part of the bridge     *)
(* source and is modelled from its written contract.                       *)
(***************************************************************************)
EXTENDS Integers, Sequences, FiniteSets, TLC

VARIABLES pc, text_str, dictionary, dictCell, heap, owned, last

vars == <<pc, text_str, dictionary, dictCell, heap, owned, last>>

(***************************************************************************)
(* Bounds                                                                  *)
(***************************************************************************)
MaxLen == 2

MaxAddr == 2

Threads == {"t1", "t2"}

MainThread == "t1"

Addrs == 1..MaxAddr

\* The one address the allocator hands out to a caller that frees every
\* string before its next call.
SoloAddrs == {1}

NullPtr == 0

\* 'a' (1 UTF-8 byte, 1 UTF-16 unit) and U+00E9 (2 UTF-8 bytes, 1 UTF-16 unit)
Alphabet == {97, 233}

RECURSIVE SeqsUpTo(_, _)
SeqsUpTo(S, n) ==
    IF n = 0 THEN {<<>>}
    ELSE LET shorter == SeqsUpTo(S, n - 1)
         IN  shorter \cup {Append(s, x) : s \in shorter, x \in S}

Texts == SeqsUpTo(Alphabet, MaxLen)

(***************************************************************************)
(* UTF-8: what CStr::to_str validates and what String::len counts          *)
(***************************************************************************)
Utf8Len(c) ==
    IF c < 128 THEN 1
    ELSE IF c < 2048 THEN 2
    ELSE IF c < 65536 THEN 3
    ELSE 4

Utf8Encode(c) ==
    IF c < 128 THEN <<c>>
    ELSE IF c < 2048 THEN <<192 + (c \div 64), 128 + (c % 64)>>
    ELSE IF c < 65536
         THEN <<224 + (c \div 4096), 128 + ((c \div 64) % 64), 128 + (c % 64)>>
    ELSE <<240 + (c \div 262144), 128 + ((c \div 4096) % 64),
           128 + ((c \div 64) % 64), 128 + (c % 64)>>

RECURSIVE EncodeStr(_)
EncodeStr(chars) ==
    IF chars = <<>> THEN <<>>
    ELSE Utf8Encode(Head(chars)) \o EncodeStr(Tail(chars))

IsCont(b) == b >= 128 /\ b < 192

\* Number of bytes announced by a lead byte, 0 when the byte cannot lead.
LeadLen(b) ==
    IF b < 128 THEN 1
    ELSE IF b >= 194 /\ b < 224 THEN 2
    ELSE IF b >= 224 /\ b < 240 THEN 3
    ELSE IF b >= 240 /\ b < 245 THEN 4
    ELSE 0

DecodeAt(bytes, n) ==
    IF n = 1 THEN bytes[1]
    ELSE IF n = 2 THEN (bytes[1] - 192) * 64 + (bytes[2] - 128)
    ELSE IF n = 3
         THEN (bytes[1] - 224) * 4096 + (bytes[2] - 128) * 64 + (bytes[3] - 128)
    ELSE (bytes[1] - 240) * 262144 + (bytes[2] - 128) * 4096
         + (bytes[3] - 128) * 64 + (bytes[4] - 128)

\* c_str.to_str(): [ok |-> FALSE] on invalid UTF-8, else the decoded chars.
RECURSIVE ToStr(_)
ToStr(bytes) ==
    IF bytes = <<>> THEN [ok |-> TRUE, chars |-> <<>>]
    ELSE LET n == LeadLen(bytes[1])
         IN  IF n = 0 \/ n > Len(bytes)
                 \/ \E k \in 2..n : ~IsCont(bytes[k])
             THEN [ok |-> FALSE, chars |-> <<>>]
             ELSE LET c    == DecodeAt(bytes, n)
                      rest == ToStr(SubSeq(bytes, n + 1, Len(bytes)))
                  IN  IF Utf8Len(c) # n \/ (c >= 55296 /\ c < 57344) \/ c > 1114111
                         \/ ~rest.ok
                      THEN [ok |-> FALSE, chars |-> <<>>]
                      ELSE [ok |-> TRUE, chars |-> <<c>> \o rest.chars]

\* source[..k].iter().collect::<String>().len()
RECURSIVE StringLen(_)
StringLen(chars) ==
    IF chars = <<>> THEN 0
    ELSE Utf8Len(Head(chars)) + StringLen(Tail(chars))

(***************************************************************************)
(* Arguments a caller can pass to harper_lint                              *)
(***************************************************************************)
NullText == [null |-> TRUE, bytes |-> <<>>]

CText(bytes) == [null |-> FALSE, bytes |-> bytes]

\* a stray 0xFF, a lead byte without its continuation, a lone continuation
InvalidByteStrings == {<<255>>, <<195>>, <<97, 169>>}

TextArgs ==
    {NullText} \cup {CText(EncodeStr(s)) : s \in Texts}
               \cup {CText(b) : b \in InvalidByteStrings}

(***************************************************************************)
(* harper_core: lints, suggestions, rules and the lint group               *)
(***************************************************************************)
ReplaceWith(chars) == [tag |-> "ReplaceWith", chars |-> chars]

InsertAfter(chars) == [tag |-> "InsertAfter", chars |-> chars]

Remove == [tag |-> "Remove", chars |-> <<>>]

LintKinds == {"Spelling", "Capitalization", "Grammar", "Style", "Repetition"}

Rules == {"SpellCheck", "SentenceCapitalization", "Phrasing"}

RuleOrder == <<"SpellCheck", "SentenceCapitalization", "Phrasing">>

Lint(start, end, kind, message, suggestions) ==
    [span |-> [start |-> start, end |-> end], lint_kind |-> kind,
     message |-> message, suggestions |-> suggestions]

\* Well-formed spans of a text of n characters.
WellFormedSpans(n) ==
    {sp \in [start : 0..n, end : 0..n] : sp.start < sp.end}

\* Every span a rule can put on a finding; a misbehaving rule also reports
\* zero-length, inverted and out-of-bounds spans.
Spans(n) == {[start |-> s, end |-> e] : s \in 0..(n + 1), e \in 0..(n + 1)}

\* The rule of the group that may misbehave.
RuleSpans(r, n) == IF r = "Phrasing" THEN Spans(n) ELSE WellFormedSpans(n)

\* What each rule attaches to a finding: its kind, message and suggestions.
RuleFlavours(r) ==
    IF r = "SpellCheck"
    THEN {[kind |-> "Spelling", message |-> "Did you mean to spell it this way?",
           suggestions |-> <<ReplaceWith(<<84, 104, 101>>), ReplaceWith(<<84, 101, 110>>)>>]}
    ELSE IF r = "SentenceCapitalization"
    THEN {[kind |-> "Capitalization", message |-> "This sentence does not start with a capital letter",
           suggestions |-> <<ReplaceWith(<<73>>)>>]}
    ELSE {[kind |-> "Grammar", message |-> "Did you mean to repeat this word?",
           suggestions |-> <<InsertAfter(<<44>>), ReplaceWith(<<97>>), Remove, ReplaceWith(<<97, 110>>)>>],
          [kind |-> "Repetition", message |-> "Repeated phrase",
           suggestions |-> <<Remove>>],
          [kind |-> "Style", message |-> "Unnecessary space",
           suggestions |-> <<>>]}

RuleFindings(r, n) ==
    {Lint(sp.start, sp.end, f.kind, f.message, f.suggestions) :
        sp \in RuleSpans(r, n), f \in RuleFlavours(r)}

\* One run of a rule: it faults, or it returns its findings.
RuleOutcomes(r, n) ==
    {[faulted |-> TRUE, lints |-> <<>>], [faulted |-> FALSE, lints |-> <<>>]}
    \cup {[faulted |-> FALSE, lints |-> <<l>>] : l \in RuleFindings(r, n)}

\* A run in which no rule faults and only the spell checker reports, on the
\* whole text.
QuietOutcomes(r, n) ==
    {o \in RuleOutcomes(r, n) :
        /\ ~o.faulted
        /\ o.lints # <<>> => r = "SpellCheck"
        /\ \A i \in 1..Len(o.lints) : o.lints[i].span = [start |-> 0, end |-> n]}

NoOutcomes == [r \in Rules |-> [faulted |-> FALSE, lints |-> <<>>]]

HasReplace(suggestions) ==
    \E i \in 1..Len(suggestions) : suggestions[i].tag = "ReplaceWith"

SpansOverlap(a, b) == a.start < b.end /\ b.start < a.end

\* Two findings conflict when they would both edit overlapping text.
Conflict(a, b) ==
    /\ SpansOverlap(a.span, b.span)
    /\ HasReplace(a.suggestions)
    /\ HasReplace(b.suggestions)

\* Concatenation of the rules' findings in rule order; a faulted rule
\* contributes nothing.
RECURSIVE MergeRules(_, _)
MergeRules(outcomes, order) ==
    IF order = <<>> THEN <<>>
    ELSE (IF outcomes[Head(order)].faulted THEN <<>> ELSE outcomes[Head(order)].lints)
         \o MergeRules(outcomes, Tail(order))

\* First-rule-wins: a finding is dropped when it conflicts with one kept earlier.
RECURSIVE ResolveOverlaps(_, _)
ResolveOverlaps(lints, kept) ==
    IF lints = <<>> THEN kept
    ELSE IF \E i \in 1..Len(kept) : Conflict(kept[i], Head(lints))
         THEN ResolveOverlaps(Tail(lints), kept)
         ELSE ResolveOverlaps(Tail(lints), Append(kept, Head(lints)))

SpanLeq(a, b) == a.start < b.start \/ (a.start = b.start /\ a.end <= b.end)

RECURSIVE InsertSorted(_, _)
InsertSorted(l, sorted) ==
    IF sorted = <<>> THEN <<l>>
    ELSE IF SpanLeq(Head(sorted).span, l.span)
         THEN <<Head(sorted)>> \o InsertSorted(l, Tail(sorted))
         ELSE <<l>> \o sorted

\* Stable sort by ascending span start, ties by ascending span end.
RECURSIVE SortLints(_, _)
SortLints(lints, sorted) ==
    IF lints = <<>> THEN sorted
    ELSE SortLints(Tail(lints), InsertSorted(Head(lints), sorted))

\* A group without isolation: the fault of one rule aborts the whole run.
LintGroupLintNoIsolation(outcomes) ==
    [panicked |-> \E r \in Rules : outcomes[r].faulted,
     lints    |-> SortLints(ResolveOverlaps(MergeRules(outcomes, RuleOrder), <<>>), <<>>)]

\* lint_group.lint(&document): a rule's fault never leaves the group.
LintGroupLint(outcomes) ==
    [panicked |-> FALSE,
     lints    |-> SortLints(ResolveOverlaps(MergeRules(outcomes, RuleOrder), <<>>), <<>>)]

(***************************************************************************)
(* The bridge: body of harper_lint after the lint group has run            *)
(***************************************************************************)
\* Bounds check with strict comparisons where the code has inclusive ones.
BoundsCheckFailsStrict(span, len) ==
    span.start > len \/ span.end > len \/ span.start > span.end

\* Bounds check that also rejects a span ending at the end of the text.
BoundsCheckFailsEarly(span, len) ==
    span.start >= len \/ span.end >= len \/ span.start >= span.end

\* TRUE when the loop skips the lint (the `continue` of the bounds check).
BoundsCheckFails(span, len) ==
    span.start >= len \/ span.end > len \/ span.start >= span.end

StartByte(source, span) == StringLen(SubSeq(source, 1, span.start))

\* End offset taken one character too far (an inclusive slice).
EndByteInclusive(source, span) ==
    StringLen(SubSeq(source, 1, IF span.end < Len(source) THEN span.end + 1 ELSE span.end))

EndByte(source, span) == StringLen(SubSeq(source, 1, span.end))

Word(source, span) == SubSeq(source, span.start + 1, span.end)

Chars(str) ==
    CASE str = "Spelling" -> <<"S", "p", "e", "l", "l", "i", "n", "g">>
      [] str = "Capitalization" ->
             <<"C", "a", "p", "i", "t", "a", "l", "i", "z", "a", "t", "i", "o", "n">>
      [] str = "Grammar" -> <<"G", "r", "a", "m", "m", "a", "r">>
      [] str = "Style" -> <<"S", "t", "y", "l", "e">>
      [] str = "Repetition" -> <<"R", "e", "p", "e", "t", "i", "t", "i", "o", "n">>

\* format!("{:?}", lint.lint_kind): the variant's name
DebugFormat(kind) == Chars(kind)

\* str::contains
Contains(hay, needle) ==
    \E i \in 0..(Len(hay) - Len(needle)) :
        SubSeq(hay, i + 1, i + Len(needle)) = needle

\* Classification that forgets the Capitalization case.
KindLowerNoCapitalization(lint_kind) ==
    LET kind == DebugFormat(lint_kind)
    IN  IF Contains(kind, Chars("Spelling")) THEN "spelling"
        ELSE IF Contains(kind, Chars("Grammar")) THEN "grammar"
        ELSE "style"

KindLower(lint_kind) ==
    LET kind == DebugFormat(lint_kind)
    IN  IF Contains(kind, Chars("Spelling")) THEN "spelling"
        ELSE IF Contains(kind, Chars("Capitalization")) \/ Contains(kind, Chars("Grammar"))
             THEN "grammar"
        ELSE "style"

\* filter_map that also surfaces the text of InsertAfter suggestions.
RECURSIVE SuggestionsWithInserts(_)
SuggestionsWithInserts(suggestions) ==
    IF suggestions = <<>> THEN <<>>
    ELSE (IF Head(suggestions).tag \in {"ReplaceWith", "InsertAfter"}
          THEN <<Head(suggestions).chars>> ELSE <<>>)
         \o SuggestionsWithInserts(Tail(suggestions))

\* filter_map over lint.suggestions keeping the ReplaceWith texts
RECURSIVE Suggestions(_)
Suggestions(suggestions) ==
    IF suggestions = <<>> THEN <<>>
    ELSE (IF Head(suggestions).tag = "ReplaceWith"
          THEN <<Head(suggestions).chars>> ELSE <<>>)
         \o Suggestions(Tail(suggestions))

LintResult(source, lint) ==
    [word        |-> Word(source, lint.span),
     start       |-> StartByte(source, lint.span),
     end         |-> EndByte(source, lint.span),
     kind        |-> KindLower(lint.lint_kind),
     message     |-> lint.message,
     suggestions |-> Suggestions(lint.suggestions)]

\* results.insert(0, ...) in place of results.push(...)
PushFront(results, r) == <<r>> \o results

Push(results, r) == Append(results, r)

\* for lint in &lints { ... }
RECURSIVE Results(_, _, _)
Results(source, lints, results) ==
    IF lints = <<>> THEN results
    ELSE IF BoundsCheckFails(Head(lints).span, Len(source))
         THEN Results(source, Tail(lints), results)
         ELSE Results(source, Tail(lints),
                      Push(results, LintResult(source, Head(lints))))

\* The JSON array "[]": the serialisation of no records.
EmptyJson == <<>>

\* serde_json::to_string(&results): the array of the records, in order
ToJson(results) == results

(***************************************************************************)
(* State                                                                   *)
(*   pc[t]         where thread t stands in harper_lint                    *)
(*   text_str[t]   the decoded text of t's call                            *)
(*   dictionary[t] the dictionary handle t holds (0: none)                 *)
(*   dictCell      the process-wide cell behind FstDictionary::curated()   *)
(*   heap          addresses of the live CString allocations               *)
(*   owned         pointers the caller received and has not yet freed      *)
(*   last          the most recent completed call, as the caller saw it    *)
(***************************************************************************)
NoCall ==
    [op |-> "none", text |-> NullText, parsed |-> FALSE, source |-> <<>>,
     outcomes |-> NoOutcomes, lints |-> <<>>, json |-> EmptyJson, ptr |-> NullPtr]

LintCall(text, parsed, source, outcomes, lints, json, ptr) ==
    [op |-> "lint", text |-> text, parsed |-> parsed, source |-> source,
     outcomes |-> outcomes, lints |-> lints, json |-> json, ptr |-> ptr]

FreeCall(ptr) == [NoCall EXCEPT !.op = "free", !.ptr = ptr]

\* A panic that unwinds out of the extern "C" function ends the process.
Aborted(text, source, outcomes) ==
    [NoCall EXCEPT !.op = "abort", !.text = text, !.parsed = TRUE,
                   !.source = source, !.outcomes = outcomes]

Init ==
    /\ pc = [t \in Threads |-> "idle"]
    /\ text_str = [t \in Threads |-> <<>>]
    /\ dictionary = [t \in Threads |-> 0]
    /\ dictCell = [state |-> "empty", builds |-> 0]
    /\ heap = {}
    /\ owned = {}
    /\ last = NoCall

\* CString::new(s).unwrap_or_default().into_raw(): a fresh live allocation
to_c_string(ptr) ==
    /\ ptr \notin heap
    /\ heap' = heap \cup {ptr}

\* harper_lint returns ptr to the caller, who now owns it.
Return(t, call) ==
    /\ to_c_string(call.ptr)
    /\ owned' = owned \cup {call.ptr}
    /\ last' = call
    /\ pc' = [pc EXCEPT ![t] = "idle"]
    /\ text_str' = [text_str EXCEPT ![t] = <<>>]
    /\ dictionary' = [dictionary EXCEPT ![t] = 0]

\* harper_lint, lines 23-31: the null and the invalid UTF-8 early returns
harper_lint_null(t, text, ptr) ==
    /\ pc[t] = "idle"
    /\ text.null
    /\ Return(t, LintCall(text, FALSE, <<>>, NoOutcomes, <<>>, EmptyJson, ptr))
    /\ UNCHANGED dictCell

harper_lint_invalid(t, text, ptr) ==
    /\ pc[t] = "idle"
    /\ ~text.null
    /\ ~ToStr(text.bytes).ok
    /\ Return(t, LintCall(text, FALSE, <<>>, NoOutcomes, <<>>, EmptyJson, ptr))
    /\ UNCHANGED dictCell

harper_lint_text(t, text) ==
    /\ pc[t] = "idle"
    /\ ~text.null
    /\ ToStr(text.bytes).ok
    /\ pc' = [pc EXCEPT ![t] = "dictionary"]
    /\ text_str' = [text_str EXCEPT ![t] = ToStr(text.bytes).chars]
    /\ last' = NoCall
    /\ UNCHANGED <<dictionary, dictCell, heap, owned>>

\* FstDictionary::curated(): the cell is filled by the first caller only;
\* a caller that finds it being filled waits, every later one gets the handle.
curated_get(t) ==
    /\ dictCell.state = "ready"
    /\ dictionary' = [dictionary EXCEPT ![t] = dictCell.builds]
    /\ pc' = [pc EXCEPT ![t] = "lint"]
    /\ UNCHANGED dictCell

curated_build(t) ==
    /\ dictCell.state = "empty"
    /\ dictCell' = [dictCell EXCEPT !.state = "building"]
    /\ pc' = [pc EXCEPT ![t] = "building"]
    /\ UNCHANGED dictionary

curated_built(t) ==
    /\ pc[t] = "building"
    /\ dictCell' = [state |-> "ready", builds |-> dictCell.builds + 1]
    /\ dictionary' = [dictionary EXCEPT ![t] = dictCell.builds + 1]
    /\ pc' = [pc EXCEPT ![t] = "lint"]
    /\ UNCHANGED <<text_str, heap, owned, last>>

\* Line 33 building its own dictionary instead of asking for the shared one.
harper_lint_dictionary_fresh(t) ==
    /\ pc[t] = "dictionary"
    /\ dictCell' = [state |-> "ready", builds |-> dictCell.builds + 1]
    /\ dictionary' = [dictionary EXCEPT ![t] = dictCell.builds + 1]
    /\ pc' = [pc EXCEPT ![t] = "lint"]
    /\ UNCHANGED <<text_str, heap, owned, last>>

\* harper_lint, line 33: Arc::new(FstDictionary::curated())
harper_lint_dictionary(t) ==
    /\ pc[t] = "dictionary"
    /\ (curated_get(t) \/ curated_build(t))
    /\ UNCHANGED <<text_str, heap, owned, last>>

\* harper_lint, lines 34-89: lint the document, convert, serialise, return
harper_lint_body(t, outcomes, ptr) ==
    /\ pc[t] = "lint"
    /\ LET source  == text_str[t]
           run     == LintGroupLint(outcomes)
           results == Results(source, run.lints, <<>>)
       IN  IF run.panicked
           THEN /\ pc' = [u \in Threads |-> "aborted"]
                /\ last' = Aborted(CText(EncodeStr(source)), source, outcomes)
                /\ UNCHANGED <<text_str, dictionary, heap, owned>>
           ELSE Return(t, LintCall(CText(EncodeStr(source)), TRUE, source, outcomes,
                               run.lints, ToJson(results), ptr))
    /\ UNCHANGED dictCell

\* harper_free_string that forgets the CString instead of dropping it.
harper_free_string_leak(ptr) ==
    /\ IF ptr # NullPtr
       THEN /\ ptr \in owned
            /\ owned' = owned \ {ptr}
            /\ UNCHANGED heap
       ELSE UNCHANGED <<heap, owned>>
    /\ last' = FreeCall(ptr)
    /\ UNCHANGED <<pc, text_str, dictionary, dictCell>>

\* harper_free_string on a pointer the caller owns, or on null
harper_free_string(ptr) ==
    /\ IF ptr # NullPtr
       THEN /\ ptr \in owned
            /\ heap' = heap \ {ptr}
            /\ owned' = owned \ {ptr}
       ELSE UNCHANGED <<heap, owned>>
    /\ last' = FreeCall(ptr)
    /\ UNCHANGED <<pc, text_str, dictionary, dictCell>>

OutcomeChoices(n) ==
    {[SpellCheck |-> a, SentenceCapitalization |-> b, Phrasing |-> c] :
        a \in RuleOutcomes("SpellCheck", n),
        b \in RuleOutcomes("SentenceCapitalization", n),
        c \in RuleOutcomes("Phrasing", n)}

QuietChoices(n) ==
    {[SpellCheck |-> a, SentenceCapitalization |-> b, Phrasing |-> c] :
        a \in QuietOutcomes("SpellCheck", n),
        b \in QuietOutcomes("SentenceCapitalization", n),
        c \in QuietOutcomes("Phrasing", n)}

\* One caller that frees each string before its next call; any findings.
Next ==
    \/ \E text \in TextArgs, ptr \in SoloAddrs : harper_lint_null(MainThread, text, ptr)
    \/ \E text \in TextArgs, ptr \in SoloAddrs : harper_lint_invalid(MainThread, text, ptr)
    \/ \E text \in TextArgs : harper_lint_text(MainThread, text)
    \/ harper_lint_dictionary(MainThread)
    \/ curated_built(MainThread)
    \/ \E o \in OutcomeChoices(Len(text_str[MainThread])), ptr \in SoloAddrs :
          harper_lint_body(MainThread, o, ptr)
    \/ \E ptr \in Addrs \cup {NullPtr} : harper_free_string(ptr)

Spec == Init /\ [][Next]_vars

\* Concurrent callers that free their strings at any time; the spell checker
\* alone reports.
NextConcurrent ==
    \/ \E t \in Threads, text \in TextArgs, ptr \in Addrs : harper_lint_null(t, text, ptr)
    \/ \E t \in Threads, text \in TextArgs, ptr \in Addrs : harper_lint_invalid(t, text, ptr)
    \/ \E t \in Threads, text \in TextArgs : harper_lint_text(t, text)
    \/ \E t \in Threads : harper_lint_dictionary(t)
    \/ \E t \in Threads : curated_built(t)
    \/ \E t \in Threads, ptr \in Addrs :
          \E o \in QuietChoices(Len(text_str[t])) : harper_lint_body(t, o, ptr)
    \/ \E ptr \in Addrs \cup {NullPtr} : harper_free_string(ptr)

SpecConcurrent == Init /\ [][NextConcurrent]_vars

(***************************************************************************)
(* Properties                                                              *)
(***************************************************************************)
\* The last call was a harper_lint call that reached the lint group.
Linted == last.op = "lint" /\ last.parsed

\* 0 <= start < end <= number of characters
ValidSpan(span, n) == 0 <= span.start /\ span.start < span.end /\ span.end <= n

HasValidSpan(lint) == ValidSpan(lint.span, Len(last.source))

\* The lints of the last call that have a valid span, in lint-group order.
Emitted == SelectSeq(last.lints, HasValidSpan)

\* Record rec reports lint l of the last call.
Reports(rec, l) ==
    /\ rec.message = l.message
    /\ Len(rec.word) = l.span.end - l.span.start
    /\ \A k \in 1..Len(rec.word) : rec.word[k] = last.source[l.span.start + k]

IsReplaceWith(s) == s.tag = "ReplaceWith"

ReplaceTexts(suggestions) ==
    LET kept == SelectSeq(suggestions, IsReplaceWith)
    IN  [k \in 1..Len(kept) |-> kept[k].chars]

Utf16Units(c) == IF c < 65536 THEN 1 ELSE 2

\* Number of UTF-16 code units of the first k characters of chars.
RECURSIVE Utf16Prefix(_, _)
Utf16Prefix(chars, k) ==
    IF k = 0 THEN 0 ELSE Utf16Prefix(chars, k - 1) + Utf16Units(chars[k])

ExpectedKind(lint_kind) ==
    CASE lint_kind = "Spelling" -> "spelling"
      [] lint_kind = "Capitalization" -> "grammar"
      [] lint_kind = "Grammar" -> "grammar"
      [] OTHER -> "style"

\* C1: a null pointer, bytes that are not valid UTF-8 and the empty string
\* all make harper_lint return the empty JSON array in a live string,
\* whatever the lint group reports.
C1_DegenerateInputEmpty ==
    (/\ last.op = "lint"
     /\ \/ last.text.null
        \/ last.text.bytes \in InvalidByteStrings
        \/ last.text.bytes = <<>>)
    => (last.json = EmptyJson /\ last.ptr # NullPtr /\ last.ptr \in heap)

\* The empty string was linted and the lint group reported something for it.
C1_Witness ==
    /\ Linted
    /\ last.text.bytes = <<>>
    /\ last.lints # <<>>
    /\ last.json = EmptyJson

\* C2: the emitted records are exactly the lints with a valid character
\* span, 0 <= start < end <= length, one record per such lint.
C2_SpanValidity ==
    Linted =>
        /\ Len(last.json) = Len(Emitted)
        /\ \A i \in 1..Len(last.json) : Reports(last.json[i], Emitted[i])

\* A call in which a lint was filtered out and a lint reaching the end of
\* the text was emitted.
C2_Witness ==
    /\ Linted
    /\ \E i \in 1..Len(last.lints) : last.lints[i].span.end > Len(last.source)
    /\ \E i \in 1..Len(last.lints) : last.lints[i].span.start >= last.lints[i].span.end
    /\ \E i \in 1..Len(Emitted) : Emitted[i].span.end = Len(last.source)
    /\ Len(last.json) >= 1

\* C3: the emitted records are sorted by ascending start offset and, for
\* equal starts, by ascending end offset.
C3_Ordering ==
    Linted =>
        \A i, j \in 1..Len(last.json) :
            i < j =>
                \/ last.json[i].start < last.json[j].start
                \/ /\ last.json[i].start = last.json[j].start
                   /\ last.json[i].end <= last.json[j].end

\* Several records with distinct offsets remain after the filter dropped a lint.
C3_Witness ==
    /\ Linted
    /\ Len(last.lints) > Len(last.json)
    /\ Len(last.json) >= 2
    /\ last.json[1].start < last.json[2].start
    /\ \E c \in 1..Len(last.source) : last.source[c] > 127

\* C4: the suggestions of a record are the texts of its lint's ReplaceWith
\* suggestions, in order; other suggestions contribute nothing.
C4_ReplaceWithOnly ==
    Linted =>
        /\ Len(last.json) = Len(Emitted)
        /\ \A i \in 1..Len(last.json) :
              last.json[i].suggestions = ReplaceTexts(Emitted[i].suggestions)

\* A lint mixing ReplaceWith with other suggestions was emitted, and so was
\* one without any ReplaceWith.
C4_Witness ==
    /\ Linted
    /\ \E i \in 1..Len(Emitted) :
          /\ Len(Emitted[i].suggestions) > Len(last.json[i].suggestions)
          /\ Len(last.json[i].suggestions) = 2
          /\ Emitted[i].suggestions[1].tag = "InsertAfter"

\* C5: the kind of a record is "spelling", "grammar" or "style": spelling for
\* Spelling, grammar for Capitalization and Grammar, style for the rest.
C5_KindClassification ==
    Linted =>
        /\ Len(last.json) = Len(Emitted)
        /\ \A i \in 1..Len(last.json) :
              /\ last.json[i].kind \in {"spelling", "grammar", "style"}
              /\ last.json[i].kind = ExpectedKind(Emitted[i].lint_kind)

\* A capitalization lint was reported as grammar.
C5_Witness ==
    /\ Linted
    /\ \E i \in 1..Len(Emitted) :
          /\ Emitted[i].lint_kind = "Capitalization"
          /\ last.json[i].kind = "grammar"

RecordsOverlap(a, b) == a.start < b.end /\ b.start < a.end

\* C6: no two returned records overlap while both carry a suggestion.
C6_NoOverlapConflict ==
    Linted =>
        \A i, j \in 1..Len(last.json) :
            i # j =>
                ~(/\ RecordsOverlap(last.json[i], last.json[j])
                  /\ last.json[i].suggestions # <<>>
                  /\ last.json[j].suggestions # <<>>)

\* Two rules reported conflicting findings with valid spans, and two
\* adjacent findings that both carry replacements were returned.
C6_Witness ==
    /\ Linted
    /\ \E r1, r2 \in Rules :
          /\ r1 # r2
          /\ \E a \in 1..Len(last.outcomes[r1].lints), b \in 1..Len(last.outcomes[r2].lints) :
                /\ Conflict(last.outcomes[r1].lints[a], last.outcomes[r2].lints[b])
                /\ HasValidSpan(last.outcomes[r1].lints[a])
                /\ HasValidSpan(last.outcomes[r2].lints[b])
    /\ \E i, j \in 1..Len(last.json) :
          /\ last.json[i].end = last.json[j].start
          /\ last.json[i].suggestions # <<>>
          /\ last.json[j].suggestions # <<>>

\* The findings of the rules that did not fault, in rule order.
RECURSIVE OtherFindings(_, _)
OtherFindings(outcomes, order) ==
    IF order = <<>> THEN <<>>
    ELSE (IF outcomes[Head(order)].faulted THEN <<>> ELSE outcomes[Head(order)].lints)
         \o OtherFindings(outcomes, Tail(order))

\* C7: when a rule faults, the call still returns a string, and every
\* valid finding of the other rules that no other finding conflicts with is
\* in the returned array.
C7_RuleFaultIsolated ==
    (/\ last.op \in {"lint", "abort"}
     /\ last.parsed
     /\ \E r \in Rules : last.outcomes[r].faulted)
    => /\ last.op = "lint"
       /\ last.ptr \in heap
       /\ LET others == OtherFindings(last.outcomes, RuleOrder)
          IN  \A a \in 1..Len(others) :
                 (/\ HasValidSpan(others[a])
                  /\ \A b \in 1..Len(others) : b # a => ~Conflict(others[a], others[b]))
                 => \E i \in 1..Len(last.json) : Reports(last.json[i], others[a])

\* A rule faulted and the findings of the two other rules were returned.
C7_Witness ==
    /\ Linted
    /\ \E r \in Rules : last.outcomes[r].faulted
    /\ Len(last.json) = 2

\* C8: the curated dictionary is built at most once, a built dictionary is
\* never changed or replaced, and every caller past line 33 holds that one.
C8_DictionaryBuiltOnce ==
    [][/\ dictCell'.builds <= 1
       /\ dictCell.state = "ready" => dictCell' = dictCell
       /\ \A t \in Threads : dictionary'[t] # 0 => dictionary'[t] = 1]_vars

\* Two concurrent calls hold the one dictionary at the same time.
C8_Witness ==
    /\ \A t \in Threads : pc[t] = "lint" /\ dictionary[t] = 1
    /\ dictCell.builds = 1

\* C9: the live allocations are exactly the strings returned and not yet
\* freed; harper_lint returns a fresh non-null allocation, and
\* harper_free_string releases its argument only (nothing for null).
C9_Ownership ==
    /\ [](heap = owned)
    /\ [][/\ last'.op = "free" =>
               /\ heap' = heap \ {last'.ptr}
               /\ (last'.ptr = NullPtr => heap' = heap)
          /\ (last'.op = "lint" /\ last' # last) =>
               /\ last'.ptr # NullPtr
               /\ last'.ptr \notin heap
               /\ heap' = heap \cup {last'.ptr}]_vars

\* harper_free_string(null) was called while a string from the null early
\* return and a second string were live.
C9_Witness ==
    /\ last.op = "free"
    /\ last.ptr = NullPtr
    /\ Cardinality(heap) >= 2
    /\ owned = heap

\* C10: the emitted offsets count UTF-16 code units of the text before the
\* start and before the end of the span.
C10_Utf16Offsets ==
    Linted =>
        /\ Len(last.json) = Len(Emitted)
        /\ \A i \in 1..Len(last.json) :
              /\ last.json[i].start = Utf16Prefix(last.source, Emitted[i].span.start)
              /\ last.json[i].end = Utf16Prefix(last.source, Emitted[i].span.end)

====
